---- MODULE Spec2Model ----
(***************************************************************************)
(* rmw_stub_cpp: the event latch StubGuardCondition                        *)
(* (include/rmw_stub_cpp/stub_guard_condition.hpp).                        *)
(*                                                                         *)
(* One latch is shared by NThreads threads.  Each thread repeatedly calls  *)
(* trigger(), has_triggered() or set_callback(...).  A call is modelled    *)
(* as: the call is issued (the thread blocks on listener_callback_mutex_), *)
(* the body runs with the mutex held, the call returns and the mutex is    *)
(* released.  A handler invocation is a state of its own (the thread is    *)
(* inside the consumer's callback, the mutex still held).  The arguments   *)
(* of a set_callback() call are thread-local and never change, so they are *)
(* drawn when the body starts to run.                                      *)
(*                                                                         *)
(* The second part is the context lifecycle of src/rmw_stub.cpp: one       *)
(* rmw_context_t, its rmw_context_impl_t with the node reference count     *)
(* node_count, and the functions rmw_init(), rmw_shutdown(),               *)
(* rmw_context_fini(), rmw_create_node() and rmw_destroy_node().  init()   *)
(* and fini() read node_count and write it back in two steps, both under   *)
(* initialization_mutex.                                                   *)
(*                                                                         *)
(* The third part is the other entities of src/rmw_stub.cpp: the           *)
(* constructors of StubPublisher and StubSubscription, which number their  *)
(* instances, the gid functions, the callback setters of events,           *)
(* subscriptions, services and clients, and the init options with          *)
(* rmw_init_options_init(), rmw_init_options_copy() and                    *)
(* rmw_init_options_fini().                                                *)
(***************************************************************************)
EXTENDS Integers, FiniteSets, Sequences

\* ---------------------------------------------------------------- bounds
NThreads == 2
MaxCalls == 6
\* the calls explored under fair scheduling
FairCalls == 4

Threads == 1 .. NThreads

\* ------------------------------------------------------- program values
NULL == "nullptr"
WAITABLE_EVENT == "WAITABLE_EVENT"

\* the arguments callers may pass to set_callback()
UserDataArgs == {NULL, "ud1"}
CallbackArgs == {NULL, "cbA", "cbB"}
WaitableArgs == {NULL, "wh1"}

NoArgs ==
  [user_data |-> NULL, callback |-> NULL, waitable_handle |-> NULL,
   use_previous_events |-> FALSE]

NoCall ==
  [callback |-> NULL, user_data |-> NULL, waitable_handle |-> NULL,
   type |-> NULL, by |-> 0, from |-> "none"]

\* no set_callback() call has run yet
NoReg ==
  [kind |-> "none", prev |-> "none", user_data |-> NULL, callback |-> NULL,
   waitable_handle |-> NULL]

NoTally == [triggers |-> 0, delivered |-> 0, raced |-> FALSE, on |-> FALSE]

\* rmw_ret_t values and the two results of rmw_create_node()
RMW_RET_OK == "RMW_RET_OK"
RMW_RET_INVALID_ARGUMENT == "RMW_RET_INVALID_ARGUMENT"
RMW_RET_INCORRECT_RMW_IMPLEMENTATION == "RMW_RET_INCORRECT_RMW_IMPLEMENTATION"
RMW_RET_BAD_ALLOC == "RMW_RET_BAD_ALLOC"
NODE == "node"

\* the rmw_context_t * a caller may pass: null, a context of another rmw
\* implementation (initialized there), or the context of this model
ContextArgs == {NULL, "foreign context", "context"}
\* node names and namespaces: null, not valid (empty), valid
NodeNameArgs == {NULL, "", "node_name"}
NamespaceArgs == {NULL, "", "/ns"}
\* the rmw_node_t * a caller may pass to rmw_destroy_node()
NodeArgs == {NULL, "foreign node", NODE}
\* the rmw_init_options_t * a caller may pass to rmw_init()
OptionsArgs ==
  {NULL, "zero options", "foreign options", "options without enclave",
   "options out of domain", "options"}
\* what the allocations of rmw_init() do
AllocOutcomes == {"ok", "bad_alloc", "copy_failed"}

\* the classes whose constructor numbers its instances
IdClasses == {"StubPublisher", "StubSubscription"}
\* the entities with an rmw function that sets a callback: QoS event,
\* subscription, service, client
EntityKinds == {"event", "subscription", "service", "client"}
\* the callbacks a caller may pass to these functions
EventCallbackArgs == {NULL, "on_new"}

\* which argument of a gid function the caller gets wrong, if any
GetGidArgs == {"ok", "null publisher", "null gid", "foreign publisher"}
CompareArgs == {"ok", "null gid1", "null gid2", "null result"}

NoGidCall ==
  [fn |-> "none", p |-> 0, q |-> 0, ret |-> "none", result |-> FALSE]

NoCtor == [at |-> "idle", class |-> "none", id |-> 0]

\* stub_identifier, and the identifier of another rmw implementation
STUB == "stub_identifier"
FOREIGN == "foreign identifier"
\* context->options after rmw_init_options_copy()
OPTIONS_COPY == "options copy"

\* the rmw_init_options_t objects of the caller, and the pointers it may
\* pass
OptionsObjects == {"init_options", "dst"}
InitOptionsArgs == {NULL} \cup OptionsObjects
\* the allocators a caller may pass: the zero-initialized one, for which
\* rcutils_allocator_is_valid() is false, and a usable one
ZERO_ALLOCATOR == "zero allocator"
AllocatorArgs == {ZERO_ALLOCATOR, "allocator"}
\* what the allocations of rmw_init_options_copy() do
CopyOutcomes == {"ok", "bad_alloc"}

NoOptCall == [fn |-> "none", with |-> NULL, ret |-> "none"]
NoOptLog == [last |-> NoOptCall, before |-> NoOptCall]

\* rmw_get_zero_initialized_init_options()
ZeroOptions ==
  [implementation_identifier |-> NULL, allocator |-> ZERO_ALLOCATOR,
   enclave |-> NULL]

\* options initialized by another rmw implementation
ForeignOptions ==
  [implementation_identifier |-> FOREIGN, allocator |-> "allocator",
   enclave |-> NULL]

ZeroContext ==
  [implementation_identifier |-> NULL, impl |-> NULL, options |-> NULL]

NoDone ==
  [fn |-> "none", arg |-> NULL, ret |-> "none", shut |-> FALSE, n |-> 0,
   err |-> "none", leak |-> FALSE, options |-> NULL, alloc |-> "none",
   cycles |-> 0]

\* the history of init()/fini() calls no longer is "M init() calls, then,
\* all of them returned, at most M fini() calls"
NoBalance ==
  [nInit |-> 0, nFini |-> 0, first |-> 0, zero |-> 0, phased |-> FALSE]

NewBalance == [NoBalance EXCEPT !.phased = TRUE]

VARIABLES
  \* StubGuardCondition's fields
  has_triggered_, unread_count_, listener_callback_, waitable_handle_,
  user_data_,
  mutex,        \* listener_callback_mutex_: the set of threads holding it
  \* each thread's position, arguments, loop index and return value
  pc, args, i, ret,
  nested,       \* per thread: "none", or where in the handler the thread
                \* was when the handler called back into the latch
  nCalls,       \* calls counted against MaxCalls (the bound of the model)
  \* history variables: observations only, read by no guard or update of
  \* the latch
  entry,        \* per thread: the latch as the current call found it
  inv,          \* per thread: handler invocations made by the current call
  call,         \* the handler invocation in progress, NoCall when none
  lastReg,      \* the most recent set_callback(): kind is "installed" (no
                \* argument null, with the arguments) or "cleared" (some
                \* argument null), prev is the kind before it
  liveSinceReg, \* trigger() delivered to the handler since the last install
  tally,        \* while only trigger() and set_callback(valid, replay=true)
                \* were called: triggers called, handler invocations made,
                \* and whether the two contended for the mutex
  trigKind,     \* "none" | "buffered" | "live": what the last trigger() did
  pollLog       \* has_triggered() results since the last trigger()

VARIABLES
  \* rmw_context_t and its rmw_context_impl_t
  ctxIdentifier, \* context->implementation_identifier: NULL or STUB
  ctxOptions,   \* context->options: NULL (zero-initialized) or the copy
                \* rmw_init() made
  ctxImpl,      \* context->impl: NULL (zero-initialized context, whose
                \* implementation_identifier is null too) or "impl"
  node_count,   \* size_t, kept as the representative of least absolute
                \* value modulo 2^64: -1 stands for SIZE_MAX
  is_shutdown,
  initialization_mutex, \* the set of threads holding it
  nodes,        \* nodes created on this impl and not destroyed
  \* each thread's position in a context function, the function it is in
  \* and the node_count it read
  cpc, op, seen,
  nCtx,         \* context calls counted against MaxCalls
  \* history variables
  done,         \* the call that returned last: function, argument, result,
                \* is_shutdown as it returned, how many have returned, the
                \* error message it set, whether an impl it destroyed
                \* wrote the leak diagnostic, the options passed to
                \* rmw_init() and, its arguments accepted, what its
                \* allocations did, and how many rmw_context_fini() calls
                \* have returned RMW_RET_OK
  balance       \* while the history is "M init(), then at most M fini()":
                \* calls of each begun, init() calls that found
                \* node_count == 0, fini() calls that brought it to 0

VARIABLES
  \* the other entities
  static_id,      \* per class: the static uint64_t id of its constructor
  ctor,           \* per thread: the constructor it is in, where, and the
                  \* id it read
  instances,      \* the StubPublisher and StubSubscription objects
                  \* constructed, in order, with their pub_id_ or sub_id_
  entity_handler, \* per entity kind: the callback the entity holds
  nEnt,           \* entity calls counted against MaxCalls
  gids,           \* the rmw_gid_t values rmw_get_gid_for_publisher()
                  \* has filled in, each with the publisher (its place in
                  \* instances) it was asked for
  \* history variables
  registered,     \* per entity kind: the callback last passed to its
                  \* rmw callback-setting function
  gidDone         \* the gid function that returned last, the publishers
                  \* concerned, its result and *result

VARIABLES
  \* the init options
  init_options, \* per rmw_init_options_t object: its fields
  nOpt,         \* init options calls counted against MaxCalls
  \* history variable
  optLog        \* per object: the last call made on it that has
                \* returned and the one before, each with its result; an
                \* rmw_init_options_init() with its allocator too

gid_state == <<gids, gidDone>>
entities ==
  <<static_id, ctor, instances, entity_handler, nEnt, registered, gid_state>>

options_state == <<init_options, nOpt, optLog>>

impl == <<node_count, is_shutdown, initialization_mutex>>
\* the fields of rmw_context_t
rmw_context == <<ctxIdentifier, ctxImpl, ctxOptions>>
context == <<rmw_context, impl, nodes, cpc, op, seen, nCtx, done, balance>>

latch == <<has_triggered_, unread_count_, listener_callback_,
           waitable_handle_, user_data_>>
regFields == <<listener_callback_, waitable_handle_, user_data_>>
locals == <<pc, args, i, ret>>
regHist == <<lastReg, liveSinceReg>>
pollHist == <<trigKind, pollLog>>
\* what the latch's own operations never touch
aside == <<nested, context, entities, options_state>>
\* all of the latch, untouched by the context's functions
guard_condition ==
  <<latch, mutex, locals, nCalls, entry, inv, call, regHist, tally,
    pollHist, nested>>
vars == <<guard_condition, context, entities, options_state>>

\* ------------------------------------------------ the code's expressions

\* fault: the lock is a temporary, destroyed at the end of its statement
UniqueLock_Temporary(t) == {}

\* std::unique_lock<std::mutex> lock_mutex(listener_callback_mutex_): the
\* holders of the mutex from here to the end of the function's scope
UniqueLock(t) == {t}

\* fault: the mutex stays locked when the call returns
Unlock_Leak(t) == mutex

\* the unique_lock goes out of scope
Unlock(t) == mutex \ {t}

\* fault: the test is inverted
HasHandler_Inverted(cb) == cb = NULL

\* if(listener_callback_)
HasHandler(cb) == cb # NULL

\* fault: the count is bumped twice
NextUnread_Twice(u) == u + 2

\* unread_count_++
NextUnread(u) == u + 1

\* fault: the flag is flipped instead of set
SetTriggered_Flip(b) == ~b

\* has_triggered_ = true
SetTriggered(b) == TRUE

\* fault: the poll resets the flag instead of negating it
Toggle_Reset(b) == FALSE

\* has_triggered_ = !has_triggered_
Toggle(b) == ~b

\* fault: only the callback is tested
IsValidRegistration_CallbackOnly(ud, cb, wh) == cb # NULL

\* if(user_data && waitable_handle && callback)
IsValidRegistration(ud, cb, wh) == ud # NULL /\ wh # NULL /\ cb # NULL

\* fault: a handler already installed is not replaced
InstalledRegistration_KeepOld(ud, cb, wh) ==
  [user_data |-> ud,
   callback |-> IF listener_callback_ # NULL THEN listener_callback_ ELSE cb,
   waitable_handle |-> wh]

\* the three fields as the install branch sets them
InstalledRegistration(ud, cb, wh) ==
  [user_data |-> ud, callback |-> cb, waitable_handle |-> wh]

\* fault: the unset branch forgets listener_callback_
ClearedRegistration_KeepCallback ==
  [user_data |-> NULL, callback |-> listener_callback_,
   waitable_handle |-> NULL]

\* the three fields as the unset branch sets them
ClearedRegistration ==
  [user_data |-> NULL, callback |-> NULL, waitable_handle |-> NULL]

\* fault: the unset branch falls through to the replay loop
AfterUnset_FallThrough == "set_callback_loop"

\* the return of the unset branch (line 62): where the call goes next
AfterUnset == "set_callback_exit"

\* fault: the loop stops one short
ReplayPending_OneShort(upe, k, unread) == upe /\ k + 1 < unread

\* fault: use_previous_events is not consulted
ReplayPending_IgnoreFlag(upe, k, unread) == k < unread

\* if (use_previous_events) for(uint64_t i = 0; i < unread_count_; i++)
ReplayPending(upe, k, unread) == upe /\ k < unread

\* fault: the unread count is not reset
ResetUnread_Keep(u) == u

\* unread_count_ = 0
ResetUnread(u) == 0

\* listener_callback_(user_data_, { waitable_handle_, WAITABLE_EVENT })
Invocation(t, from) ==
  [callback |-> listener_callback_, user_data |-> user_data_,
   waitable_handle |-> waitable_handle_, type |-> WAITABLE_EVENT,
   by |-> t, from |-> from]

\* ------------------------------------------------- history bookkeeping

\* what a call finds when it takes the mutex
Snapshot ==
  [unread |-> unread_count_, flag |-> has_triggered_,
   callback |-> listener_callback_, reg |-> lastReg.kind,
   polled |-> (trigKind = "buffered" /\ pollLog # <<>> /\ pollLog[1])]

NoSnapshot ==
  [unread |-> 0, flag |-> FALSE, callback |-> NULL, reg |-> "none",
   polled |-> FALSE]

AllNonNull(a) ==
  a.user_data # NULL /\ a.callback # NULL /\ a.waitable_handle # NULL

\* ------------------------------------------------------------------ Init
Start(n) ==
  /\ has_triggered_ = FALSE
  /\ unread_count_ = 0
  /\ listener_callback_ = NULL
  /\ waitable_handle_ = NULL
  /\ user_data_ = NULL
  /\ mutex = {}
  /\ pc = [t \in Threads |-> "idle"]
  /\ args = [t \in Threads |-> NoArgs]
  /\ i = [t \in Threads |-> 0]
  /\ ret = [t \in Threads |-> FALSE]
  /\ nested = [t \in Threads |-> "none"]
  /\ nCalls = n
  /\ entry = [t \in Threads |-> NoSnapshot]
  /\ inv = [t \in Threads |-> 0]
  /\ call = NoCall
  /\ lastReg = NoReg
  /\ liveSinceReg = FALSE
  /\ tally = [NoTally EXCEPT !.on = TRUE]
  /\ trigKind = "none"
  /\ pollLog = <<>>

\* a context whose impl is im: NULL is the zero-initialized context,
\* "impl" a new rmw_context_impl_t (its member initializers)
ContextStart(im, shut) ==
  /\ ctxImpl = im
  /\ ctxIdentifier = IF im = NULL THEN NULL ELSE STUB
  /\ ctxOptions = IF im = NULL THEN NULL ELSE OPTIONS_COPY
  /\ node_count = 0
  /\ is_shutdown = shut
  /\ initialization_mutex = {}
  /\ nodes = 0
  /\ cpc = [t \in Threads |-> "idle"]
  /\ op = [t \in Threads |-> "none"]
  /\ seen = [t \in Threads |-> 0]
  /\ nCtx = 0
  /\ done = NoDone
  /\ balance = NewBalance

\* no publisher or subscription constructed yet (static uint64_t id = 0),
\* one entity of each kind, just constructed
EntitiesStart ==
  /\ static_id = [c \in IdClasses |-> 0]
  /\ ctor = [t \in Threads |-> NoCtor]
  /\ instances = <<>>
  /\ entity_handler = [k \in EntityKinds |-> NULL]
  /\ nEnt = 0
  /\ registered = [k \in EntityKinds |-> NULL]
  /\ gids = {}
  /\ gidDone = NoGidCall

\* the caller's rmw_init_options_t objects, each zero-initialized or
\* initialized by another rmw implementation
OptionsStart ==
  /\ init_options \in [OptionsObjects -> {ZeroOptions, ForeignOptions}]
  /\ nOpt = 0
  /\ optLog = [o \in OptionsObjects |-> NoOptLog]

\* zero-initialized rmw_init_options_t objects
ZeroOptionsStart ==
  /\ init_options = [o \in OptionsObjects |-> ZeroOptions]
  /\ nOpt = 0
  /\ optLog = [o \in OptionsObjects |-> NoOptLog]

\* a new StubGuardCondition, no call made yet, a zero-initialized context,
\* new entities and zero-initialized init options
Init ==
  /\ Start(0)
  /\ ContextStart(NULL, FALSE)
  /\ EntitiesStart
  /\ ZeroOptionsStart

\* the same latch, with FairCalls calls left to make
FairInit ==
  /\ Start(MaxCalls - FairCalls)
  /\ ContextStart(NULL, FALSE)
  /\ EntitiesStart
  /\ ZeroOptionsStart

\* an rmw_context_impl_t on which init() and fini() are called directly;
\* rmw_shutdown() may have set its flag
InitImpl ==
  /\ Start(0)
  /\ \E shut \in BOOLEAN : ContextStart("impl", shut)
  /\ EntitiesStart
  /\ ZeroOptionsStart

\* a call returns: the lock goes out of scope, the frame is gone
Return(t) ==
  /\ mutex' = Unlock(t)
  /\ pc' = [pc EXCEPT ![t] = "idle"]
  /\ args' = [args EXCEPT ![t] = NoArgs]
  /\ i' = [i EXCEPT ![t] = 0]
  /\ ret' = [ret EXCEPT ![t] = FALSE]
  /\ entry' = [entry EXCEPT ![t] = NoSnapshot]
  /\ inv' = [inv EXCEPT ![t] = 0]
  /\ UNCHANGED <<latch, nCalls, call, regHist, tally, pollHist>>
  /\ UNCHANGED aside

\* --------------------------------------------------------------- trigger()
TriggerCall(t) ==
  /\ pc[t] = "idle"
  /\ nCalls < MaxCalls
  /\ pc' = [pc EXCEPT ![t] = "trigger_wait"]
  /\ nCalls' = nCalls + 1
  /\ tally' = IF tally.on THEN [tally EXCEPT !.triggers = @ + 1] ELSE tally
  /\ UNCHANGED <<latch, mutex, args, i, ret, entry, inv, call, regHist,
                 pollHist>>
  /\ UNCHANGED aside

\* lines 18-26: take the mutex, then deliver or buffer
TriggerBody(t) ==
  /\ pc[t] = "trigger_wait"
  /\ mutex = {}
  /\ mutex' = UniqueLock(t)
  /\ entry' = [entry EXCEPT ![t] = Snapshot]
  /\ pollLog' = <<>>
  /\ IF HasHandler(listener_callback_)
       THEN /\ pc' = [pc EXCEPT ![t] = "trigger_in_callback"]
            /\ call' = Invocation(t, "trigger")
            /\ inv' = [inv EXCEPT ![t] = @ + 1]
            /\ liveSinceReg' = TRUE
            /\ trigKind' = "live"
            /\ UNCHANGED <<has_triggered_, unread_count_>>
       ELSE /\ has_triggered_' = SetTriggered(has_triggered_)
            /\ unread_count_' = NextUnread(unread_count_)
            /\ pc' = [pc EXCEPT ![t] = "trigger_exit"]
            /\ trigKind' = "buffered"
            /\ UNCHANGED <<call, inv, liveSinceReg>>
  /\ tally' =
       IF tally.on
         THEN [tally EXCEPT
                 !.delivered = IF HasHandler(listener_callback_)
                                 THEN @ + 1 ELSE @,
                 !.raced = @ \/ \E u \in Threads :
                                  pc[u] = "set_callback_wait"]
         ELSE tally
  /\ UNCHANGED <<regFields, args, i, ret, nCalls, lastReg>>
  /\ UNCHANGED aside

\* line 27
TriggerReturn(t) ==
  /\ pc[t] = "trigger_exit"
  /\ Return(t)

\* the consumer's handler returns to the call that invoked it
CallbackReturn(t) ==
  /\ pc[t] \in {"trigger_in_callback", "set_callback_in_callback"}
  /\ IF pc[t] = "trigger_in_callback"
       THEN /\ pc' = [pc EXCEPT ![t] = "trigger_exit"]
            /\ i' = i
       ELSE /\ pc' = [pc EXCEPT ![t] = "set_callback_loop"]
            /\ i' = [i EXCEPT ![t] = @ + 1]
  /\ call' = NoCall
  /\ UNCHANGED <<latch, mutex, args, ret, nCalls, entry, inv, regHist,
                 tally, pollHist>>
  /\ UNCHANGED aside

\* --------------------------------------------------------- has_triggered()
HasTriggeredCall(t) ==
  /\ pc[t] = "idle"
  /\ nCalls < MaxCalls
  /\ pc' = [pc EXCEPT ![t] = "has_triggered_wait"]
  /\ nCalls' = nCalls + 1
  /\ tally' = NoTally
  /\ UNCHANGED <<latch, mutex, args, i, ret, entry, inv, call, regHist,
                 pollHist>>
  /\ UNCHANGED aside

\* lines 32-38
HasTriggeredBody(t) ==
  /\ pc[t] = "has_triggered_wait"
  /\ mutex = {}
  /\ mutex' = UniqueLock(t)
  /\ entry' = [entry EXCEPT ![t] = Snapshot]
  /\ ret' = [ret EXCEPT ![t] = has_triggered_]
  /\ has_triggered_' = Toggle(has_triggered_)
  /\ pc' = [pc EXCEPT ![t] = "has_triggered_exit"]
  /\ pollLog' = Append(pollLog, has_triggered_)
  /\ UNCHANGED <<unread_count_, regFields, args, i, nCalls, inv, call,
                 regHist, tally, trigKind>>
  /\ UNCHANGED aside

\* line 39
HasTriggeredReturn(t) ==
  /\ pc[t] = "has_triggered_exit"
  /\ Return(t)

\* ---------------------------------------------------------- set_callback()
SetCallbackCall(t) ==
  /\ pc[t] = "idle"
  /\ nCalls < MaxCalls
  /\ pc' = [pc EXCEPT ![t] = "set_callback_wait"]
  /\ nCalls' = nCalls + 1
  /\ UNCHANGED <<latch, mutex, args, i, ret, entry, inv, call, regHist,
                 tally, pollHist>>
  /\ UNCHANGED aside

\* lines 50-63: take the mutex, install or unset the registration
SetCallbackBody(t, ud, cb, wh, upe) ==
  /\ pc[t] = "set_callback_wait"
  /\ mutex = {}
  /\ mutex' = UniqueLock(t)
  /\ args' = [args EXCEPT ![t] =
                [user_data |-> ud, callback |-> cb, waitable_handle |-> wh,
                 use_previous_events |-> upe]]
  /\ entry' = [entry EXCEPT ![t] = Snapshot]
  /\ i' = [i EXCEPT ![t] = 0]
  /\ lastReg' =
       IF AllNonNull(args'[t])
         THEN [kind |-> "installed", prev |-> lastReg.kind, user_data |-> ud,
               callback |-> cb, waitable_handle |-> wh]
         ELSE [NoReg EXCEPT !.kind = "cleared", !.prev = lastReg.kind]
  /\ liveSinceReg' = IF AllNonNull(args'[t]) THEN FALSE ELSE liveSinceReg
  /\ tally' =
       IF tally.on /\ AllNonNull(args'[t]) /\ upe
         THEN [tally EXCEPT !.raced = @ \/ \E u \in Threads :
                                             pc[u] = "trigger_wait"]
         ELSE NoTally
  /\ LET valid == IsValidRegistration(ud, cb, wh)
         r == IF valid THEN InstalledRegistration(ud, cb, wh)
                       ELSE ClearedRegistration
     IN  /\ user_data_' = r.user_data
         /\ listener_callback_' = r.callback
         /\ waitable_handle_' = r.waitable_handle
         /\ pc' = [pc EXCEPT ![t] = IF valid THEN "set_callback_loop"
                                             ELSE AfterUnset]
  /\ UNCHANGED <<has_triggered_, unread_count_, ret, nCalls, inv, call,
                 pollHist>>
  /\ UNCHANGED aside

\* lines 65-70: one iteration of the replay loop invokes the handler
SetCallbackReplay(t) ==
  /\ pc[t] = "set_callback_loop"
  /\ ReplayPending(args[t].use_previous_events, i[t], unread_count_)
  /\ pc' = [pc EXCEPT ![t] = "set_callback_in_callback"]
  /\ call' = Invocation(t, "set_callback")
  /\ inv' = [inv EXCEPT ![t] = @ + 1]
  /\ tally' = IF tally.on THEN [tally EXCEPT !.delivered = @ + 1] ELSE tally
  /\ UNCHANGED <<latch, mutex, args, i, ret, nCalls, entry, regHist,
                 pollHist>>
  /\ UNCHANGED aside

\* line 73: the loop is over (or was skipped); reset the unread count
SetCallbackReset(t) ==
  /\ pc[t] = "set_callback_loop"
  /\ ~ReplayPending(args[t].use_previous_events, i[t], unread_count_)
  /\ unread_count_' = ResetUnread(unread_count_)
  /\ pc' = [pc EXCEPT ![t] = "set_callback_exit"]
  /\ UNCHANGED <<has_triggered_, regFields, mutex, args, i, ret, nCalls,
                 entry, inv, call, regHist, tally, pollHist>>
  /\ UNCHANGED aside

\* lines 62 and 74
SetCallbackReturn(t) ==
  /\ pc[t] = "set_callback_exit"
  /\ Return(t)

\* ------------------------------------------------------------------ Next
Next ==
  \E t \in Threads :
    \/ TriggerCall(t)
    \/ TriggerBody(t)
    \/ TriggerReturn(t)
    \/ CallbackReturn(t)
    \/ HasTriggeredCall(t)
    \/ HasTriggeredBody(t)
    \/ HasTriggeredReturn(t)
    \/ SetCallbackCall(t)
    \/ \E ud \in UserDataArgs, cb \in CallbackArgs, wh \in WaitableArgs,
          upe \in BOOLEAN : SetCallbackBody(t, ud, cb, wh, upe)
    \/ SetCallbackReplay(t)
    \/ SetCallbackReset(t)
    \/ SetCallbackReturn(t)

Spec == Init /\ [][Next]_vars

\* ------------------------------------------------- a re-entrant handler
NestedCalls == {"trigger_wait", "has_triggered_wait", "set_callback_wait"}

\* the handler, running inside trigger() (line 22) or inside the replay
\* loop (line 68), calls trigger(), has_triggered() or set_callback() on
\* the same latch: the nested call starts like any call, at the lock
HandlerReenters(t, fn) ==
  /\ pc[t] \in {"trigger_in_callback", "set_callback_in_callback"}
  /\ nested[t] = "none"
  /\ nested' = [nested EXCEPT ![t] = pc[t]]
  /\ pc' = [pc EXCEPT ![t] = fn]
  /\ UNCHANGED <<latch, mutex, args, i, ret, nCalls, entry, inv, call,
                 regHist, tally, pollHist, context,
                 entities, options_state>>

\* Locking a std::mutex the thread already owns is undefined behaviour.
\* The nested lock (line 18, 32 or 50) either blocks for ever, which is no
\* step at all since the mutex is never free, or fails with
\* std::system_error (resource_deadlock_would_occur), which is this step:
\* the handler either catches the exception and goes on, or lets it unwind
\* the outer call, whose unique_lock then releases the mutex.
NestedLockThrows(t, caught) ==
  /\ nested[t] # "none"
  /\ pc[t] \in NestedCalls
  /\ t \in mutex
  /\ nested' = [nested EXCEPT ![t] = "none"]
  /\ IF caught
       THEN /\ pc' = [pc EXCEPT ![t] = nested[t]]
            /\ UNCHANGED <<mutex, args, i, ret, entry, inv, call>>
       ELSE /\ mutex' = Unlock(t)
            /\ pc' = [pc EXCEPT ![t] = "idle"]
            /\ args' = [args EXCEPT ![t] = NoArgs]
            /\ i' = [i EXCEPT ![t] = 0]
            /\ ret' = [ret EXCEPT ![t] = FALSE]
            /\ entry' = [entry EXCEPT ![t] = NoSnapshot]
            /\ inv' = [inv EXCEPT ![t] = 0]
            /\ call' = NoCall
  /\ UNCHANGED <<latch, nCalls, regHist, tally, pollHist, context,
                 entities, options_state>>

NextReenter ==
  \/ Next
  \/ \E t \in Threads :
       \/ \E fn \in NestedCalls : HandlerReenters(t, fn)
       \/ \E caught \in BOOLEAN : NestedLockThrows(t, caught)

\* the latch with handlers that break the contract and call back into it
SpecReenter == Init /\ [][NextReenter]_vars

\* --------------------------------------------------- the context's code

\* fault: init() and fini() run without the lock
LockGuard_None(t) == {}

\* std::lock_guard<std::mutex> guard(initialization_mutex)
LockGuard(t) == {t}

\* if (0u != this->node_count) ... else: the first initialization
FirstInitialization(n) == n = 0

\* fault: the branch of an initialized impl does not count
Increment_OnlyFirst(n) == IF n = 0 THEN 1 ELSE n

\* this->node_count++ on the value read
Increment(n) == n + 1

\* --this->node_count on the value read; below 0 the size_t wraps, which
\* the representative -1 (SIZE_MAX) stands for
Decrement(n) == n - 1

\* if (0u != --this->node_count) ... else: the destruction branch
LastFinalization(n) == Decrement(n) = 0

\* fault: the flag is flipped
ShutDown_Toggle(b) == ~b

\* context->impl->is_shutdown = true
ShutDown(b) == TRUE

\* fault: init() reports a failure when the impl is already initialized,
\* after counting the caller
InitStatus_FailsWhenShared(n) ==
  IF n = 0 THEN RMW_RET_OK ELSE RMW_RET_BAD_ALLOC

\* init() returns RMW_RET_OK in both branches (lines 335, 339)
InitStatus(n) == RMW_RET_OK

\* fault: the destructor never reports
LeakDiagnostic_Never(n) == FALSE

\* ~rmw_context_impl_t(): if (0u != this->node_count) the diagnostic is
\* written to stderr (stub_context_implementation.hpp, lines 37-42)
LeakDiagnostic(n) == n # 0

\* a call has returned
Returned(fn, arg, r) ==
  [fn |-> fn, arg |-> arg, ret |-> r, shut |-> is_shutdown, n |-> done.n + 1,
   err |-> "none", leak |-> FALSE, options |-> NULL, alloc |-> "none",
   cycles |-> done.cycles]

\* an init() call begins
BeginInit(b) ==
  IF b.phased /\ b.nFini = 0 THEN [b EXCEPT !.nInit = @ + 1] ELSE NoBalance

\* a fini() call begins on thread t
BeginFini(b, t) ==
  IF /\ b.phased
     /\ b.nFini < b.nInit
     /\ \A u \in Threads \ {t} : cpc[u] \notin {"init_wait", "init_locked"}
    THEN [b EXCEPT !.nFini = @ + 1]
    ELSE NoBalance

CtxIdle == \A t \in Threads : cpc[t] = "idle"

\* ------------------------------------ rmw_context_impl_t::init(), fini()

\* a direct call of init() on the impl
ImplInitCall(t) ==
  /\ cpc[t] = "idle"
  /\ nCtx < MaxCalls
  /\ ctxImpl # NULL
  /\ nCtx' = nCtx + 1
  /\ cpc' = [cpc EXCEPT ![t] = "init_wait"]
  /\ op' = [op EXCEPT ![t] = "init"]
  /\ balance' = BeginInit(balance)
  /\ UNCHANGED <<rmw_context, impl, nodes, seen, done,
                 guard_condition, entities, options_state>>

\* a direct call of fini() on the impl
ImplFiniCall(t) ==
  /\ cpc[t] = "idle"
  /\ nCtx < MaxCalls
  /\ ctxImpl # NULL
  /\ nCtx' = nCtx + 1
  /\ cpc' = [cpc EXCEPT ![t] = "fini_wait"]
  /\ op' = [op EXCEPT ![t] = "fini"]
  /\ balance' = BeginFini(balance, t)
  /\ UNCHANGED <<rmw_context, impl, nodes, seen, done,
                 guard_condition, entities, options_state>>

\* init() takes the lock and tests node_count (lines 331-332)
InitEnter(t) ==
  /\ cpc[t] = "init_wait"
  /\ initialization_mutex = {}
  /\ initialization_mutex' = LockGuard(t)
  /\ seen' = [seen EXCEPT ![t] = node_count]
  /\ cpc' = [cpc EXCEPT ![t] = "init_locked"]
  /\ balance' = IF balance.phased /\ FirstInitialization(node_count)
                  THEN [balance EXCEPT !.first = @ + 1]
                  ELSE balance
  /\ UNCHANGED <<rmw_context, node_count, is_shutdown, nodes, op, nCtx, done,
                 guard_condition, entities, options_state>>

\* init() increments node_count in either branch and returns RMW_RET_OK
\* (lines 334-335, 338-339).  A direct call is over; rmw_create_node()
\* goes on to build the node, which touches nothing shared, and returns
\* through its scope exit finalize_context, which is never cancelled
\* (lines 461-477): the thread is at the lock of fini().
InitIncrement(t) ==
  /\ cpc[t] = "init_locked"
  /\ node_count' = Increment(seen[t])
  /\ initialization_mutex' = initialization_mutex \ {t}
  /\ seen' = [seen EXCEPT ![t] = 0]
  /\ IF op[t] = "init"
       THEN /\ cpc' = [cpc EXCEPT ![t] = "idle"]
            /\ op' = [op EXCEPT ![t] = "none"]
            /\ done' = Returned("init", "impl", InitStatus(seen[t]))
            /\ UNCHANGED balance
       ELSE IF InitStatus(seen[t]) # RMW_RET_OK
         \* if (RMW_RET_OK != ret) return nullptr (lines 457-459)
         THEN /\ cpc' = [cpc EXCEPT ![t] = "idle"]
              /\ op' = [op EXCEPT ![t] = "none"]
              /\ done' = Returned("rmw_create_node", "context", NULL)
              /\ UNCHANGED balance
         ELSE /\ cpc' = [cpc EXCEPT ![t] = "fini_wait"]
              /\ balance' = BeginFini(balance, t)
              /\ UNCHANGED <<op, done>>
  /\ UNCHANGED <<rmw_context, is_shutdown, nodes, nCtx,
                 guard_condition, entities, options_state>>

\* fini() takes the lock (line 345)
FiniEnter(t) ==
  /\ cpc[t] = "fini_wait"
  /\ initialization_mutex = {}
  /\ initialization_mutex' = LockGuard(t)
  /\ seen' = [seen EXCEPT ![t] = node_count]
  /\ cpc' = [cpc EXCEPT ![t] = "fini_locked"]
  /\ UNCHANGED <<rmw_context, node_count, is_shutdown, nodes, op, nCtx, done,
                 balance, guard_condition, entities, options_state>>

\* fini() decrements node_count and returns RMW_RET_OK in either branch
\* (lines 346-350).  Run as the scope exit of rmw_create_node(), its result
\* is dropped and rmw_create_node() returns the node (line 477).
FiniDecrement(t) ==
  /\ cpc[t] = "fini_locked"
  /\ node_count' = Decrement(seen[t])
  /\ initialization_mutex' = initialization_mutex \ {t}
  /\ seen' = [seen EXCEPT ![t] = 0]
  /\ cpc' = [cpc EXCEPT ![t] = "idle"]
  /\ op' = [op EXCEPT ![t] = "none"]
  /\ balance' = IF balance.phased /\ LastFinalization(seen[t])
                  THEN [balance EXCEPT !.zero = @ + 1]
                  ELSE balance
  /\ IF op[t] = "fini"
       THEN /\ done' = Returned("fini", "impl", RMW_RET_OK)
            /\ UNCHANGED nodes
       ELSE /\ done' = Returned("rmw_create_node", "context", NODE)
            /\ nodes' = nodes + 1
  /\ UNCHANGED <<rmw_context, is_shutdown, nCtx, guard_condition, entities,
                 options_state>>

\* delete of the impl on which init() and fini() were called directly,
\* by a thread that knows no call is in progress: the destructor runs
\* (stub_context_implementation.hpp, lines 35-43) and that is all
DestroyImpl(t) ==
  /\ ctxImpl # NULL
  /\ CtxIdle
  /\ ctxImpl' = NULL
  /\ UNCHANGED <<ctxIdentifier, ctxOptions>>
  /\ done' = [Returned("~rmw_context_impl_t", "impl", "void")
                EXCEPT !.leak = LeakDiagnostic(node_count)]
  /\ UNCHANGED <<impl, nodes, cpc, op, seen, nCtx, balance,
                 guard_condition, entities, options_state>>

\* ------------------------------------------------------------ rmw_init()

\* the implementation_identifier and impl of the context passed; a foreign
\* context is one initialized by another rmw implementation
IdentifierOf(ctx) == IF ctx = "context" THEN ctxIdentifier ELSE FOREIGN
ImplOf(ctx) == IF ctx = "context" THEN ctxImpl ELSE "foreign impl"

\* the argument checks of rmw_init(options, ctx), in their order
\* (lines 357-381)
InitArgumentCheck(options, ctx) ==
  IF options = NULL \/ ctx = NULL THEN RMW_RET_INVALID_ARGUMENT
  ELSE IF options = "zero options" THEN RMW_RET_INVALID_ARGUMENT
  ELSE IF options = "foreign options"
    THEN RMW_RET_INCORRECT_RMW_IMPLEMENTATION
  ELSE IF options = "options without enclave" THEN RMW_RET_INVALID_ARGUMENT
  ELSE IF IdentifierOf(ctx) # NULL THEN RMW_RET_INVALID_ARGUMENT
  ELSE IF options = "options out of domain" THEN RMW_RET_INVALID_ARGUMENT
  ELSE RMW_RET_OK

\* the result of rmw_init(options, ctx) (lines 357-407), env being what
\* its two allocations do
InitResult(options, ctx, env) ==
  IF InitArgumentCheck(options, ctx) # RMW_RET_OK
    THEN InitArgumentCheck(options, ctx)
  ELSE IF env # "ok" THEN RMW_RET_BAD_ALLOC
  ELSE RMW_RET_OK

\* fault: the scope exit is cancelled before the function has succeeded
RestoreContext_Cancelled(c) == c

\* the scope exit restore_context:
\* *context = rmw_get_zero_initialized_context() (lines 383-384)
RestoreContext(c) == ZeroContext

\* the context as rmw_init() leaves it: untouched when an argument check
\* fails; else the identifier is set (line 387) and the impl allocated
\* (line 392); if that fails, or the copy of the options fails and the
\* scope exit cleanup_impl deletes the impl (lines 398-403), restore_context
\* runs; else the options are copied and both scope exits are cancelled
InitContext(options, ctx, env) ==
  IF InitArgumentCheck(options, ctx) # RMW_RET_OK
    THEN [implementation_identifier |-> ctxIdentifier, impl |-> ctxImpl,
          options |-> ctxOptions]
  ELSE IF env = "bad_alloc"
    THEN RestoreContext([implementation_identifier |-> STUB, impl |-> NULL,
                         options |-> NULL])
  ELSE IF env = "copy_failed"
    THEN RestoreContext([implementation_identifier |-> STUB,
                         impl |-> "deleted impl", options |-> NULL])
  ELSE [implementation_identifier |-> STUB, impl |-> "impl",
        options |-> OPTIONS_COPY]

\* rmw_init(); a new impl has node_count 0 and is_shutdown false
RmwInit(t, options, ctx, env) ==
  /\ cpc[t] = "idle"
  /\ nCtx < MaxCalls
  /\ nCtx' = nCtx + 1
  /\ done' = [Returned("rmw_init", ctx, InitResult(options, ctx, env))
                EXCEPT !.options = options,
                       !.alloc = IF InitArgumentCheck(options, ctx) = RMW_RET_OK
                                   THEN env ELSE "none"]
  /\ ctxIdentifier' = InitContext(options, ctx, env).implementation_identifier
  /\ ctxImpl' = InitContext(options, ctx, env).impl
  /\ ctxOptions' = InitContext(options, ctx, env).options
  /\ IF InitResult(options, ctx, env) = RMW_RET_OK
       THEN /\ node_count' = 0
            /\ is_shutdown' = FALSE
            /\ balance' = NewBalance
       ELSE UNCHANGED <<node_count, is_shutdown, balance>>
  /\ UNCHANGED <<initialization_mutex, nodes, cpc, op, seen,
                 guard_condition, entities, options_state>>

\* -------------------------------------------------------- rmw_shutdown()

\* fault: context->impl is not tested
ContextCheck_ImplNotTested(ctx) ==
  IF ctx = NULL THEN RMW_RET_INVALID_ARGUMENT
  ELSE IF IdentifierOf(ctx) # STUB THEN RMW_RET_INCORRECT_RMW_IMPLEMENTATION
  ELSE RMW_RET_OK

\* the checks of rmw_shutdown() and rmw_context_fini() (lines 241-252,
\* 261-270); a foreign context is one initialized by its implementation
ContextCheck(ctx) ==
  IF ctx = NULL THEN RMW_RET_INVALID_ARGUMENT
  ELSE IF ImplOf(ctx) = NULL THEN RMW_RET_INVALID_ARGUMENT
  ELSE IF IdentifierOf(ctx) # STUB THEN RMW_RET_INCORRECT_RMW_IMPLEMENTATION
  ELSE RMW_RET_OK

RmwShutdown(t, ctx) ==
  /\ cpc[t] = "idle"
  /\ nCtx < MaxCalls
  /\ nCtx' = nCtx + 1
  /\ done' = Returned("rmw_shutdown", ctx, ContextCheck(ctx))
  /\ is_shutdown' = IF ContextCheck(ctx) = RMW_RET_OK
                      THEN ShutDown(is_shutdown)
                      ELSE is_shutdown
  /\ UNCHANGED <<rmw_context, node_count, initialization_mutex, nodes, cpc, op,
                 seen, balance, guard_condition, entities, options_state>>

\* ---------------------------------------------------- rmw_context_fini()

\* fault: the context is finalized without having been shut down
ContextFiniResult_IgnoreShutdown(ctx) == ContextCheck(ctx)

\* the result of rmw_context_fini(): its checks, the test of is_shutdown
\* (lines 271-274), then what rmw_init_options_fini() returns on the copy
\* rmw_init() made
ContextFiniResult(ctx) ==
  IF ContextCheck(ctx) # RMW_RET_OK THEN ContextCheck(ctx)
  ELSE IF ~is_shutdown THEN RMW_RET_INVALID_ARGUMENT
  ELSE RMW_RET_OK

\* rmw_context_fini() (lines 259-279).  Deleting the impl while another
\* thread is inside a function of the context is a use after free; the
\* callers of this model finalize a context no thread is using.  The nodes
\* still alive are leaked with the impl.
RmwContextFini(t, ctx) ==
  /\ cpc[t] = "idle"
  /\ nCtx < MaxCalls
  /\ ContextFiniResult(ctx) = RMW_RET_OK => CtxIdle
  /\ nCtx' = nCtx + 1
  /\ done' = [Returned("rmw_context_fini", ctx, ContextFiniResult(ctx))
                EXCEPT !.leak = /\ ContextFiniResult(ctx) = RMW_RET_OK
                                /\ LeakDiagnostic(node_count),
                       !.cycles = IF ContextFiniResult(ctx) = RMW_RET_OK
                                    THEN @ + 1 ELSE @]
  /\ IF ContextFiniResult(ctx) = RMW_RET_OK
       THEN /\ ctxImpl' = ZeroContext.impl
            /\ ctxIdentifier' = ZeroContext.implementation_identifier
            /\ ctxOptions' = ZeroContext.options
            /\ node_count' = 0
            /\ is_shutdown' = FALSE
            /\ nodes' = 0
            /\ balance' = NewBalance
       ELSE UNCHANGED <<rmw_context, node_count, is_shutdown, nodes, balance>>
  /\ UNCHANGED <<initialization_mutex, cpc, op, seen,
                 guard_condition, entities, options_state>>

\* ----------------------------------- rmw_create_node(), rmw_destroy_node()

\* the checks before init() (lines 419-454): a zero-initialized context
\* fails the identifier check, a shut down one the test of line 430
\* fault: the shutdown flag is not consulted
CreateNodeRefused_IgnoreShutdown(ctx, name, namespace_) ==
  \/ ctx = NULL
  \/ IdentifierOf(ctx) # STUB
  \/ ImplOf(ctx) = NULL
  \/ name \in {NULL, ""}
  \/ namespace_ \in {NULL, ""}

CreateNodeRefused(ctx, name, namespace_) ==
  \/ ctx = NULL
  \/ IdentifierOf(ctx) # STUB
  \/ ImplOf(ctx) = NULL
  \/ is_shutdown
  \/ name \in {NULL, ""}
  \/ namespace_ \in {NULL, ""}

\* the error message the refusing check sets, in the order of the checks;
\* a null name or namespace is refused by the rmw validation function,
\* which leaves its own message
CreateNodeError(ctx, name, namespace_) ==
  IF ctx = NULL THEN "context argument is null"
  ELSE IF IdentifierOf(ctx) # STUB
    THEN "implementation identifier does not match"
  ELSE IF ImplOf(ctx) = NULL THEN "expected initialized context"
  ELSE IF is_shutdown THEN "context has been shutdown"
  ELSE IF name = NULL THEN "rmw_validate_node_name"
  ELSE IF name = "" THEN "invalid node name"
  ELSE IF namespace_ = NULL THEN "rmw_validate_namespace"
  ELSE "invalid node namespace"

\* rmw_create_node() up to its call of init() (line 456)
CreateNodeCall(t, ctx, name, namespace_) ==
  /\ cpc[t] = "idle"
  /\ nCtx < MaxCalls
  /\ nCtx' = nCtx + 1
  /\ IF CreateNodeRefused(ctx, name, namespace_)
       THEN /\ done' = [Returned("rmw_create_node", ctx, NULL)
                          EXCEPT !.err = CreateNodeError(ctx, name, namespace_)]
            /\ UNCHANGED <<cpc, op, balance>>
       ELSE /\ cpc' = [cpc EXCEPT ![t] = "init_wait"]
            /\ op' = [op EXCEPT ![t] = "rmw_create_node"]
            /\ balance' = BeginInit(balance)
            /\ UNCHANGED done
  /\ UNCHANGED <<rmw_context, impl, nodes, seen, guard_condition, entities,
                 options_state>>

DestroyNodeResult(node) ==
  IF node = NULL THEN RMW_RET_INVALID_ARGUMENT
  ELSE IF node = "foreign node" THEN RMW_RET_INCORRECT_RMW_IMPLEMENTATION
  ELSE RMW_RET_OK

\* rmw_destroy_node() (lines 480-500): the node is freed with the
\* allocator of its context's options; the call of fini() is commented out
\* (line 498).  A node can be passed only while one is alive and its
\* context is initialized.
DestroyNode(t, node) ==
  /\ cpc[t] = "idle"
  /\ nCtx < MaxCalls
  /\ node = NODE => nodes > 0 /\ ctxImpl # NULL
  /\ nCtx' = nCtx + 1
  /\ done' = Returned("rmw_destroy_node", node, DestroyNodeResult(node))
  /\ nodes' = IF node = NODE THEN nodes - 1 ELSE nodes
  /\ UNCHANGED <<rmw_context, impl, cpc, op, seen, balance,
                 guard_condition, entities, options_state>>

\* ------------------------------------------------ the two context models

\* threads calling init() and fini() on one impl
NextImpl ==
  \E t \in Threads :
    \/ ImplInitCall(t)
    \/ ImplFiniCall(t)
    \/ InitEnter(t)
    \/ InitIncrement(t)
    \/ FiniEnter(t)
    \/ FiniDecrement(t)
    \/ DestroyImpl(t)

SpecImpl == InitImpl /\ [][NextImpl]_vars

\* threads calling the rmw functions on one context
NextContext ==
  \E t \in Threads :
    \/ \E options \in OptionsArgs, ctx \in ContextArgs, env \in AllocOutcomes :
         RmwInit(t, options, ctx, env)
    \/ \E ctx \in ContextArgs : RmwShutdown(t, ctx)
    \/ \E ctx \in ContextArgs : RmwContextFini(t, ctx)
    \/ \E ctx \in ContextArgs, name \in NodeNameArgs,
          namespace_ \in NamespaceArgs :
         CreateNodeCall(t, ctx, name, namespace_)
    \/ \E node \in NodeArgs : DestroyNode(t, node)
    \/ InitEnter(t)
    \/ InitIncrement(t)
    \/ FiniEnter(t)
    \/ FiniDecrement(t)

SpecContext == Init /\ [][NextContext]_vars

\* ------------------------------------------------------ the other entities

\* id++ on the value read
NextId(n) == n + 1

\* (void)callback; (void)user_data: StubEvent, StubSubscription,
\* StubService and StubClient have no member to keep the callback in, their
\* set_callback() keeps what the entity had
StoredHandler(old, callback) == old

\* create_publisher() or create_subscription() reaches
\* new StubPublisher(...) or new StubSubscription(...) (lines 80, 111)
ConstructCall(t, class) ==
  /\ ctor[t].at = "idle"
  /\ nEnt < MaxCalls
  /\ nEnt' = nEnt + 1
  /\ ctor' = [ctor EXCEPT ![t] = [at |-> "load", class |-> class, id |-> 0]]
  /\ UNCHANGED <<static_id, instances, entity_handler, registered, gid_state,
                 guard_condition, context, options_state>>

\* pub_id_ = id++ and sub_id_ = id++ read the static id and write it back
\* with no lock and no atomic; this step is the read
ConstructLoad(t) ==
  /\ ctor[t].at = "load"
  /\ ctor' = [ctor EXCEPT ![t].at = "store",
                          ![t].id = static_id[ctor[t].class]]
  /\ UNCHANGED <<static_id, instances, entity_handler, nEnt, registered,
                 gid_state, guard_condition, context, options_state>>

\* the write of id and of the member pub_id_ or sub_id_; the object is
\* constructed
ConstructStore(t) ==
  /\ ctor[t].at = "store"
  /\ static_id' = [static_id EXCEPT ![ctor[t].class] = NextId(ctor[t].id)]
  /\ instances' =
       Append(instances, [class |-> ctor[t].class, id |-> ctor[t].id])
  /\ ctor' = [ctor EXCEPT ![t] = NoCtor]
  /\ UNCHANGED <<entity_handler, nEnt, registered, gid_state,
                 guard_condition, context, options_state>>

\* rmw_event_set_callback(), rmw_subscription_set_on_new_message_callback(),
\* rmw_service_set_on_new_request_callback() and
\* rmw_client_set_on_new_response_callback(): each hands its arguments to
\* the entity's set_callback() and returns RMW_RET_OK
EntitySetCallback(t, kind, callback) ==
  /\ ctor[t].at = "idle"
  /\ nEnt < MaxCalls
  /\ nEnt' = nEnt + 1
  /\ entity_handler' =
       [entity_handler EXCEPT ![kind] = StoredHandler(@, callback)]
  /\ registered' = [registered EXCEPT ![kind] = callback]
  /\ UNCHANGED <<static_id, ctor, instances, gid_state, guard_condition,
                 context, options_state>>

\* the publishers constructed: their places in instances
Publishers ==
  {k \in 1 .. Len(instances) : instances[k].class = "StubPublisher"}

\* byte k of a uint64_t, the least significant first
RECURSIVE Byte(_, _)
Byte(n, k) == IF k = 1 THEN n % 256 ELSE Byte(n \div 256, k - 1)

\* memset(gid->data, 0, sizeof(gid->data)) and memcpy(gid->data,
\* stub_pub->get_pub_id_ptr(), sizeof(uint64_t)): the eight bytes of
\* pub_id_; the bytes of data after them are zero in every gid and left out
GidData(pub_id) == [k \in 1 .. 8 |-> Byte(pub_id, k)]

\* the checks of rmw_get_gid_for_publisher() (lines 667-673)
GetGidResult(arg) ==
  IF arg \in {"null publisher", "null gid"} THEN RMW_RET_INVALID_ARGUMENT
  ELSE IF arg = "foreign publisher" THEN RMW_RET_INCORRECT_RMW_IMPLEMENTATION
  ELSE RMW_RET_OK

\* rmw_get_gid_for_publisher() on publisher k (lines 665-686)
GetGidForPublisher(t, k, arg) ==
  /\ ctor[t].at = "idle"
  /\ nEnt < MaxCalls
  /\ nEnt' = nEnt + 1
  /\ gids' =
       IF GetGidResult(arg) = RMW_RET_OK
         THEN gids \cup {[pub |-> k,
                          gid |-> [implementation_identifier |-> STUB,
                                   data |-> GidData(instances[k].id)]]}
         ELSE gids
  /\ gidDone' = [fn |-> "rmw_get_gid_for_publisher", p |-> k, q |-> k,
                 ret |-> GetGidResult(arg), result |-> FALSE]
  /\ UNCHANGED <<static_id, ctor, instances, entity_handler, registered,
                 guard_condition, context, options_state>>

\* the checks of rmw_compare_gids_equal() (lines 692-704)
CompareGidsResult(gid1, gid2, arg) ==
  IF arg # "ok" THEN RMW_RET_INVALID_ARGUMENT
  ELSE IF gid1.implementation_identifier # STUB
    THEN RMW_RET_INCORRECT_RMW_IMPLEMENTATION
  ELSE IF gid2.implementation_identifier # STUB
    THEN RMW_RET_INCORRECT_RMW_IMPLEMENTATION
  ELSE RMW_RET_OK

\* memcmp(gid1->data, gid2->data, sizeof(gid1->data)) == 0
GidsEqual(gid1, gid2) == \A k \in 1 .. 8 : gid1.data[k] = gid2.data[k]

\* rmw_compare_gids_equal() on two gids obtained before (lines 688-709)
CompareGidsEqual(t, a, b, arg) ==
  /\ ctor[t].at = "idle"
  /\ nEnt < MaxCalls
  /\ nEnt' = nEnt + 1
  /\ gidDone' =
       [fn |-> "rmw_compare_gids_equal", p |-> a.pub, q |-> b.pub,
        ret |-> CompareGidsResult(a.gid, b.gid, arg),
        result |-> /\ CompareGidsResult(a.gid, b.gid, arg) = RMW_RET_OK
                   /\ GidsEqual(a.gid, b.gid)]
  /\ UNCHANGED <<static_id, ctor, instances, entity_handler, registered, gids,
                 guard_condition, context, options_state>>

NextEntities ==
  \E t \in Threads :
    \/ \E class \in IdClasses : ConstructCall(t, class)
    \/ ConstructLoad(t)
    \/ ConstructStore(t)
    \/ \E kind \in EntityKinds, callback \in EventCallbackArgs :
         EntitySetCallback(t, kind, callback)
    \/ \E k \in Publishers, arg \in GetGidArgs : GetGidForPublisher(t, k, arg)
    \/ \E a \in gids, b \in gids, arg \in CompareArgs :
         CompareGidsEqual(t, a, b, arg)

SpecEntities == Init /\ [][NextEntities]_vars

\* -------------------------------------------------------- the init options

\* a call on an object has returned
Logged(log, fn, with, r) ==
  [last |-> [fn |-> fn, with |-> with, ret |-> r], before |-> log.last]

\* rcutils_allocator_is_valid(), behind RCUTILS_CHECK_ALLOCATOR
AllocatorIsValid(allocator) == allocator # ZERO_ALLOCATOR

\* the checks of rmw_init_options_init(o, allocator) (lines 162-167)
OptionsInitResult(o, allocator) ==
  IF o = NULL THEN RMW_RET_INVALID_ARGUMENT
  ELSE IF ~AllocatorIsValid(allocator) THEN RMW_RET_INVALID_ARGUMENT
  ELSE IF init_options[o].implementation_identifier # NULL
    THEN RMW_RET_INVALID_ARGUMENT
  ELSE RMW_RET_OK

\* the assignments of rmw_init_options_init() (lines 168-175)
InitializedOptions(allocator) ==
  [implementation_identifier |-> STUB, allocator |-> allocator,
   enclave |-> NULL]

\* rmw_init_options_init()
OptionsInit(o, allocator) ==
  /\ nOpt < MaxCalls
  /\ nOpt' = nOpt + 1
  /\ init_options' =
       IF OptionsInitResult(o, allocator) = RMW_RET_OK
         THEN [init_options EXCEPT ![o] = InitializedOptions(allocator)]
         ELSE init_options
  /\ optLog' =
       IF o = NULL THEN optLog
       ELSE [optLog EXCEPT ![o] =
               Logged(@, "rmw_init_options_init", allocator,
                      OptionsInitResult(o, allocator))]
  /\ UNCHANGED <<guard_condition, context, entities>>

\* the caller names the enclave of options it has initialized (the rcl
\* layer does, before rmw_init())
SetEnclave(o) ==
  /\ init_options[o].implementation_identifier = STUB
  /\ init_options[o].enclave = NULL
  /\ init_options' = [init_options EXCEPT ![o].enclave = "enclave"]
  /\ UNCHANGED <<nOpt, optLog, guard_condition, context, entities>>

\* the checks of rmw_init_options_copy(src, dst) (lines 181-195) and what
\* its allocations do (lines 198-209); rcutils_strdup() of a null enclave
\* allocates nothing
OptionsCopyResult(src, dst, env) ==
  IF src = NULL \/ dst = NULL THEN RMW_RET_INVALID_ARGUMENT
  ELSE IF init_options[src].implementation_identifier = NULL
    THEN RMW_RET_INVALID_ARGUMENT
  ELSE IF init_options[src].implementation_identifier # STUB
    THEN RMW_RET_INCORRECT_RMW_IMPLEMENTATION
  ELSE IF init_options[dst].implementation_identifier # NULL
    THEN RMW_RET_INVALID_ARGUMENT
  ELSE IF env # "ok" THEN RMW_RET_BAD_ALLOC
  ELSE RMW_RET_OK

\* rmw_init_options_copy(): *dst = tmp, the copy of *src with an enclave
\* string of its own
OptionsCopy(src, dst, env) ==
  /\ nOpt < MaxCalls
  /\ nOpt' = nOpt + 1
  /\ init_options' =
       IF OptionsCopyResult(src, dst, env) = RMW_RET_OK
         THEN [init_options EXCEPT ![dst] = init_options[src]]
         ELSE init_options
  /\ optLog' =
       IF dst = NULL THEN optLog
       ELSE [optLog EXCEPT ![dst] =
               Logged(@, "rmw_init_options_copy", NULL,
                      OptionsCopyResult(src, dst, env))]
  /\ UNCHANGED <<guard_condition, context, entities>>

\* the checks of rmw_init_options_fini(o) (lines 216-231) and the result
\* of rmw_security_options_fini() on options and an allocator that are
\* not null (line 234)
OptionsFiniResult(o) ==
  IF o = NULL THEN RMW_RET_INVALID_ARGUMENT
  ELSE IF init_options[o].implementation_identifier = NULL
    THEN RMW_RET_INVALID_ARGUMENT
  ELSE IF init_options[o].implementation_identifier # STUB
    THEN RMW_RET_INCORRECT_RMW_IMPLEMENTATION
  ELSE IF ~AllocatorIsValid(init_options[o].allocator)
    THEN RMW_RET_INVALID_ARGUMENT
  ELSE RMW_RET_OK

\* fault: the options are not reset
FinalizedOptions_Kept(old) == old

\* *init_options = rmw_get_zero_initialized_init_options() (line 235)
FinalizedOptions(old) == ZeroOptions

\* rmw_init_options_fini()
OptionsFini(o) ==
  /\ nOpt < MaxCalls
  /\ nOpt' = nOpt + 1
  /\ init_options' =
       IF OptionsFiniResult(o) = RMW_RET_OK
         THEN [init_options EXCEPT ![o] = FinalizedOptions(@)]
         ELSE init_options
  /\ optLog' =
       IF o = NULL THEN optLog
       ELSE [optLog EXCEPT ![o] =
               Logged(@, "rmw_init_options_fini", NULL,
                      OptionsFiniResult(o))]
  /\ UNCHANGED <<guard_condition, context, entities>>

NextOptions ==
  \/ \E o \in InitOptionsArgs, allocator \in AllocatorArgs :
       OptionsInit(o, allocator)
  \/ \E o \in OptionsObjects : SetEnclave(o)
  \/ \E src \in InitOptionsArgs, dst \in InitOptionsArgs,
        env \in CopyOutcomes : OptionsCopy(src, dst, env)
  \/ \E o \in InitOptionsArgs : OptionsFini(o)

InitOptions ==
  /\ Start(0)
  /\ ContextStart(NULL, FALSE)
  /\ EntitiesStart
  /\ OptionsStart

\* a caller initializing, copying and finalizing init options
SpecOptions == InitOptions /\ [][NextOptions]_vars

\* taking the mutex: the first statement of each function
Acquire(t) ==
  \/ TriggerBody(t)
  \/ HasTriggeredBody(t)
  \/ \E ud \in UserDataArgs, cb \in CallbackArgs, wh \in WaitableArgs,
        upe \in BOOLEAN : SetCallbackBody(t, ud, cb, wh, upe)

\* the steps of a thread that holds the mutex, the handler's return included
Proceed(t) ==
  \/ TriggerReturn(t)
  \/ CallbackReturn(t)
  \/ HasTriggeredReturn(t)
  \/ SetCallbackReplay(t)
  \/ SetCallbackReset(t)
  \/ SetCallbackReturn(t)

\* Fair scheduling: a thread that can run does run, every handler returns,
\* and a thread that finds the mutex free again and again gets it.  No
\* thread is obliged to issue a call.
FairSpec ==
  /\ FairInit
  /\ [][Next]_vars
  /\ \A t \in Threads : WF_vars(Proceed(t)) /\ SF_vars(Acquire(t))

TypeOK ==
  /\ has_triggered_ \in BOOLEAN
  /\ unread_count_ \in 0 .. MaxCalls
  /\ listener_callback_ \in CallbackArgs
  /\ waitable_handle_ \in WaitableArgs
  /\ user_data_ \in UserDataArgs
  /\ mutex \subseteq Threads /\ Cardinality(mutex) <= 1
  /\ nCalls \in 0 .. MaxCalls
  /\ ctxImpl \in {NULL, "impl"}
  /\ ctxIdentifier \in {NULL, STUB}
  /\ ctxOptions \in {NULL, OPTIONS_COPY}
  /\ node_count \in (0 - MaxCalls) .. MaxCalls
  /\ is_shutdown \in BOOLEAN
  /\ initialization_mutex \subseteq Threads
  /\ nodes \in 0 .. MaxCalls
  /\ nCtx \in 0 .. MaxCalls

\* ================================================================ claims

Idle == \A t \in Threads : pc[t] = "idle"

\* positions of a thread inside trigger() after its body has run
InTrigger == {"trigger_in_callback", "trigger_exit"}

\* positions of a thread inside set_callback() after lines 50-63 have run
InSetCallback ==
  {"set_callback_loop", "set_callback_in_callback", "set_callback_exit"}

\* C1: every trigger() call has exactly one of two effects.  If a handler
\* was registered when the call took the mutex, the call invokes the handler
\* exactly once and leaves unread_count_ (and has_triggered_) alone;
\* otherwise it invokes no handler, adds exactly 1 to unread_count_ and sets
\* has_triggered_.
C1_TriggerExactlyOneEffect ==
  \A t \in Threads :
    pc[t] \in InTrigger =>
      IF entry[t].callback # NULL
        THEN /\ inv[t] = 1
             /\ unread_count_ = entry[t].unread
             /\ has_triggered_ = entry[t].flag
        ELSE /\ inv[t] = 0
             /\ unread_count_ = entry[t].unread + 1
             /\ has_triggered_ = TRUE

\* a trigger() buffered on top of an earlier buffered trigger, after a
\* registration was cleared
C1_Witness ==
  \E t \in Threads :
    /\ pc[t] = "trigger_exit"
    /\ entry[t].callback = NULL
    /\ entry[t].unread = 1
    /\ unread_count_ = 2
    /\ lastReg.kind = "cleared"

\* C2: when only trigger() and set_callback(valid handler, replay = true)
\* have been called, under every interleaving, once all calls have
\* returned the handler invocations plus the remaining unread_count_ equal
\* the number K of trigger() calls: no trigger lost, none delivered twice.
C2_NoTriggerLostOrDuplicated ==
  (tally.on /\ Idle) => tally.delivered + unread_count_ = tally.triggers

\* two triggers and a registration that contended for the mutex, all
\* returned, both triggers delivered
C2_Witness ==
  /\ tally.on
  /\ Idle
  /\ tally.raced
  /\ tally.triggers >= 2
  /\ tally.delivered = tally.triggers

\* C3 (as claimed): buffered triggers that a has_triggered() call reported
\* (it returned true after them) are not delivered again by a later
\* set_callback(valid handler, replay = true): that call invokes the
\* handler 0 times.
C3_PolledTriggerNotRedelivered ==
  \A t \in Threads :
    ( /\ pc[t] \in InSetCallback
      /\ AllNonNull(args[t])
      /\ args[t].use_previous_events
      /\ entry[t].polled )
    => inv[t] = 0

\* C4: set_callback(valid handler, use_previous_events = true) that finds N
\* buffered triggers invokes the new handler exactly N times inside the
\* call, no trigger() is delivered to the handler before the replay is over
\* (nor before the call returns), and unread_count_ is 0 when it returns.
C4_ReplayExactlyTheBacklog ==
  \A t \in Threads :
    ( /\ pc[t] \in InSetCallback
      /\ AllNonNull(args[t])
      /\ args[t].use_previous_events )
    => /\ ~liveSinceReg
       /\ \A u \in Threads : pc[u] # "trigger_in_callback"
       /\ inv[t] <= entry[t].unread
       /\ pc[t] = "set_callback_in_callback" =>
            /\ call.by = t
            /\ call.from = "set_callback"
            /\ call.callback = args[t].callback
       /\ pc[t] = "set_callback_exit" =>
            /\ inv[t] = entry[t].unread
            /\ unread_count_ = 0

\* a replay of two buffered triggers is over while another thread's
\* trigger() waits for the mutex
C4_Witness ==
  \E t \in Threads :
    /\ pc[t] = "set_callback_exit"
    /\ AllNonNull(args[t])
    /\ args[t].use_previous_events
    /\ entry[t].unread = 2
    /\ inv[t] = 2
    /\ \E u \in Threads : pc[u] = "trigger_wait"

\* C5: set_callback(valid handler, use_previous_events = false) invokes the
\* handler for no buffered trigger, and unread_count_ is 0 when the call
\* returns, whatever it was before.
C5_NoReplayDropsTheBacklog ==
  \A t \in Threads :
    ( /\ pc[t] \in InSetCallback
      /\ AllNonNull(args[t])
      /\ ~args[t].use_previous_events )
    => /\ inv[t] = 0
       /\ pc[t] = "set_callback_exit" => unread_count_ = 0

\* a registration without replay returns having dropped two buffered
\* triggers
C5_Witness ==
  \E t \in Threads :
    /\ pc[t] = "set_callback_exit"
    /\ AllNonNull(args[t])
    /\ ~args[t].use_previous_events
    /\ entry[t].unread = 2
    /\ unread_count_ = 0

\* C6: while the most recent set_callback() is one that installed a valid
\* handler, every trigger() invokes that handler exactly once, in the
\* calling thread and before it returns, and buffers nothing: unread_count_
\* and has_triggered_ are as the call found them.
C6_AttendedDeliversInline ==
  \A t \in Threads :
    (pc[t] \in InTrigger /\ entry[t].reg = "installed")
    => /\ inv[t] = 1
       /\ unread_count_ = entry[t].unread
       /\ has_triggered_ = entry[t].flag
       /\ pc[t] = "trigger_in_callback" =>
            /\ call.by = t
            /\ call.from = "trigger"
            /\ call.callback = lastReg.callback

\* a trigger() delivered inline is about to return, the flag left set by an
\* earlier buffered trigger untouched
C6_Witness ==
  \E t \in Threads :
    /\ pc[t] = "trigger_exit"
    /\ entry[t].reg = "installed"
    /\ inv[t] = 1
    /\ has_triggered_

\* C7: while the most recent set_callback() is one that cleared the
\* registration, every trigger() invokes no handler, adds 1 to
\* unread_count_ and sets has_triggered_.
C7_ClearedBuffersAgain ==
  \A t \in Threads :
    (pc[t] \in InTrigger /\ entry[t].reg = "cleared")
    => /\ pc[t] = "trigger_exit"
       /\ inv[t] = 0
       /\ call = NoCall
       /\ unread_count_ = entry[t].unread + 1
       /\ has_triggered_ = TRUE

\* a handler was installed, then cleared, and a trigger() was buffered
C7_Witness ==
  \E t \in Threads :
    /\ pc[t] = "trigger_exit"
    /\ entry[t].reg = "cleared"
    /\ lastReg.prev = "installed"
    /\ unread_count_ = 1

\* C8: set_callback() with any of user_data, callback or waitable_handle
\* null is an unregister: it goes straight to its return, the three
\* registration fields are null, and no handler is invoked, also when
\* use_previous_events is true and triggers are buffered.
C8_NullArgumentUnregisters ==
  \A t \in Threads :
    (pc[t] \in InSetCallback /\ ~AllNonNull(args[t]))
    => /\ pc[t] = "set_callback_exit"
       /\ listener_callback_ = NULL
       /\ user_data_ = NULL
       /\ waitable_handle_ = NULL
       /\ inv[t] = 0
       /\ call = NoCall

\* a call with a callback and user_data but no waitable_handle, asking for
\* replay while two triggers are buffered, is about to return
C8_Witness ==
  \E t \in Threads :
    /\ pc[t] = "set_callback_exit"
    /\ args[t].callback # NULL
    /\ args[t].user_data # NULL
    /\ args[t].waitable_handle = NULL
    /\ args[t].use_previous_events
    /\ entry[t].unread = 2
    /\ unread_count_ = 2

\* C9: has_triggered() returns the value of has_triggered_ it finds and
\* negates it; of any two consecutive has_triggered() calls with no
\* trigger() in between, the returned values differ.
C9_PollToggles ==
  /\ \A t \in Threads :
       pc[t] = "has_triggered_exit" =>
         /\ ret[t] = entry[t].flag
         /\ has_triggered_ = ~entry[t].flag
  /\ \A k \in 1 .. Len(pollLog) :
       k + 1 <= Len(pollLog) => pollLog[k] # pollLog[k + 1]

\* three polls in a row with no trigger() between them
C9_Witness ==
  /\ Len(pollLog) >= 3
  /\ trigKind = "none"

\* C10: after one or more trigger() calls made while no handler is
\* registered, however many, the next has_triggered() returns true and the
\* has_triggered() right after it returns false.
C10_PollAfterTriggersTrueThenFalse ==
  trigKind = "buffered" =>
    /\ Len(pollLog) >= 1 => pollLog[1] = TRUE
    /\ Len(pollLog) >= 2 => pollLog[2] = FALSE

\* two buffered triggers, then two polls
C10_Witness ==
  /\ trigKind = "buffered"
  /\ unread_count_ = 2
  /\ Len(pollLog) = 2

\* C11 (as claimed): on a latch on which set_callback() was never called,
\* after three trigger() calls and no further trigger, three consecutive
\* has_triggered() calls return true, false, false.
C11_ThreePollsTrueFalseFalse ==
  ( /\ lastReg.kind = "none"
    /\ trigKind = "buffered"
    /\ unread_count_ = 3
    /\ Len(pollLog) >= 3 )
  => SubSeq(pollLog, 1, 3) = <<TRUE, FALSE, FALSE>>

\* C11 (amended): in that scenario the three has_triggered() calls return
\* true, false, true: every poll negates the flag.
C11_ThreePollsTrueFalseTrue ==
  ( /\ lastReg.kind = "none"
    /\ trigKind = "buffered"
    /\ unread_count_ = 3
    /\ Len(pollLog) >= 3 )
  => SubSeq(pollLog, 1, 3) = <<TRUE, FALSE, TRUE>>

\* three buffered triggers, then three polls
C11_Witness ==
  /\ lastReg.kind = "none"
  /\ trigKind = "buffered"
  /\ unread_count_ = 3
  /\ Len(pollLog) = 3
  /\ Idle

\* C12: every handler invocation, from trigger() or from the replay loop,
\* calls the callback of the most recent set_callback() that installed a
\* handler, with that call's user_data and an event of that call's
\* waitable_handle and type WAITABLE_EVENT; no invocation happens once a
\* later set_callback() has cleared the registration.
C12_InvokesTheCurrentRegistration ==
  call # NoCall =>
    /\ lastReg.kind = "installed"
    /\ call.callback = lastReg.callback
    /\ call.user_data = lastReg.user_data
    /\ call.waitable_handle = lastReg.waitable_handle
    /\ call.type = WAITABLE_EVENT
    /\ call.from \in {"trigger", "set_callback"}

\* a trigger() is being delivered after a handler replaced an installed one
C12_Witness ==
  /\ call # NoCall
  /\ call.from = "trigger"
  /\ lastReg.prev = "installed"

\* positions of a thread between taking and releasing the mutex
InBody == InTrigger \cup InSetCallback \cup {"has_triggered_exit"}

Waiting ==
  {"idle", "trigger_wait", "has_triggered_wait", "set_callback_wait"}

\* C13: the operations of one latch exclude each other.  A thread inside
\* the body of trigger(), has_triggered() or set_callback() holds the
\* mutex, alone, so at most one thread is inside a body; and a step that
\* changes has_triggered_, unread_count_, listener_callback_, user_data_ or
\* waitable_handle_ is a step of the thread that holds the mutex.
C13_MutualExclusion ==
  /\ [](\A t \in Threads : pc[t] \in InBody => mutex = {t})
  /\ [][latch' # latch =>
          \E t \in Threads : mutex' = {t} /\ pc'[t] \in InBody]_vars

\* one thread is in the replay loop's handler, another waits to poll
C13_Witness ==
  \E t, u \in Threads :
    /\ pc[t] = "set_callback_in_callback"
    /\ pc[u] = "has_triggered_wait"

\* C14 (as claimed): the lock is not held while a handler invoked by
\* trigger() runs.
C14_LockFreeWhileHandlerRuns ==
  \A t \in Threads : pc[t] = "trigger_in_callback" => t \notin mutex

\* C14 (amended): trigger() holds the mutex for the whole call, the handler
\* invocation included: while a handler invoked by trigger() runs, every
\* other thread is outside the latch or waiting for the mutex, so no other
\* has_triggered() or set_callback() completes before the handler returns.
C14_LockHeldWhileHandlerRuns ==
  \A t \in Threads :
    pc[t] = "trigger_in_callback" =>
      /\ mutex = {t}
      /\ \A u \in Threads \ {t} : pc[u] \in Waiting

\* a handler invoked by trigger() runs while another thread waits to poll
C14_Witness ==
  \E t, u \in Threads :
    /\ pc[t] = "trigger_in_callback"
    /\ pc[u] = "has_triggered_wait"

\* C16: under fair scheduling, with handlers that return and do not call
\* back into the latch, every trigger() call returns, whatever the state of
\* the latch and whatever the other threads call; trigger() has one way
\* out, its normal return.
C16_TriggerReturns ==
  \A t \in Threads :
    (pc[t] = "trigger_wait") ~> (pc[t] = "idle")

\* a trigger() waits for the mutex while another thread's trigger() is
\* inside the handler
C16_Witness ==
  \E t, u \in Threads :
    /\ pc[t] = "trigger_wait"
    /\ pc[u] = "trigger_in_callback"

C17_ExactlyOneFirstAndLast ==
  balance.phased =>
    /\ balance.first <= 1
    /\ balance.zero <= 1
    /\ CtxIdle /\ balance.nInit >= 1 /\ balance.nFini = 0 =>
         node_count = balance.nInit /\ balance.first = 1
    /\ CtxIdle /\ balance.nInit >= 1 /\ balance.nFini = balance.nInit =>
         node_count = 0 /\ balance.first = 1 /\ balance.zero = 1

\* two or more init() calls and as many fini() calls after them have all
\* returned
C17_Witness ==
  /\ balance.phased
  /\ CtxIdle
  /\ balance.nInit >= 2
  /\ balance.nFini = balance.nInit
  /\ done.fn = "fini"
  /\ node_count = 0

\* C18 (as claimed): a fini() call that finds node_count == 0 returns an
\* error and leaves node_count at 0.
C18_UnbalancedReleaseFails ==
  [][\A t \in Threads :
       /\ cpc[t] = "fini_locked"
       /\ op[t] = "fini"
       /\ seen[t] = 0
       /\ cpc'[t] = "idle"
       => done'.ret # RMW_RET_OK /\ node_count' = 0]_vars

\* C19 (as claimed): whenever no rmw_create_node() or rmw_destroy_node()
\* call is in progress on an initialized context, node_count is the number
\* of nodes created and not yet destroyed.
C19_CountTracksLiveNodes ==
  CtxIdle /\ ctxImpl # NULL => node_count = nodes

\* C20: every rmw_shutdown() on the initialized context returns RMW_RET_OK
\* with is_shutdown true and node_count as it was, and changes nothing at
\* all when is_shutdown was true already; and as long as the impl lives
\* is_shutdown, once true, stays true.
C20_ShutdownSetsOnceAndForAll ==
  /\ [][/\ done'.n # done.n
        /\ done'.fn = "rmw_shutdown"
        /\ done'.arg = "context"
        /\ ctxImpl # NULL
        => /\ done'.ret = RMW_RET_OK
           /\ is_shutdown'
           /\ node_count' = node_count
           /\ is_shutdown => UNCHANGED <<rmw_context, impl, nodes>>]_vars
  /\ [][ctxImpl # NULL /\ ctxImpl' # NULL /\ is_shutdown => is_shutdown']_vars

\* a second rmw_shutdown() has returned RMW_RET_OK while an
\* rmw_create_node() holds a reference
C20_Witness ==
  /\ done.fn = "rmw_shutdown"
  /\ done.arg = "context"
  /\ done.ret = RMW_RET_OK
  /\ done.shut
  /\ is_shutdown
  /\ node_count >= 1

\* C21: while the context is shut down, every rmw_create_node() call that
\* starts on it returns nullptr at once with the error "context has been
\* shutdown" set, node_count as it was, and no thread enters init().
C21_RefusedAfterShutdown ==
  [][is_shutdown /\ ctxImpl # NULL =>
       /\ \A t \in Threads : cpc[t] = "idle" => cpc'[t] = "idle"
       /\ nCtx' # nCtx /\ done'.fn = "rmw_create_node" /\ done'.arg = "context"
            => /\ done'.n = done.n + 1
               /\ done'.ret = NULL
               /\ done'.err = "context has been shutdown"
               /\ node_count' = node_count]_vars

\* rmw_create_node() was refused on a shut down context that has a node
C21_Witness ==
  /\ done.fn = "rmw_create_node"
  /\ done.ret = NULL
  /\ done.err = "context has been shutdown"
  /\ is_shutdown
  /\ nodes >= 1

\* C22 (as claimed): node_count is never incremented in a state in which
\* is_shutdown is true.
C22_NeverResurrected ==
  [][is_shutdown => node_count' <= node_count]_vars

\* C23: every rmw_create_node() call that returns nullptr, from its checks
\* or after init(), returns with node_count as it was and no node made.
C23_NullptrLeavesCount ==
  [][/\ done'.n # done.n
     /\ done'.fn = "rmw_create_node"
     /\ done'.ret = NULL
     => node_count' = node_count /\ nodes' = nodes]_vars

\* rmw_create_node() returned nullptr for its namespace while another
\* rmw_create_node() holds a reference
C23_Witness ==
  /\ done.fn = "rmw_create_node"
  /\ done.ret = NULL
  /\ done.err = "invalid node namespace"
  /\ node_count >= 1

\* C24: the destruction of an impl always completes, and it writes the leak
\* diagnostic if and only if node_count is not 0 at that moment.
C24_LeakReportedIffCounted ==
  [][ctxImpl # NULL /\ ctxImpl' = NULL =>
       /\ done'.n = done.n + 1
       /\ done'.leak <=> node_count # 0]_vars

\* an impl was destroyed with references left and reported it
C24_Witness ==
  /\ ctxImpl = NULL
  /\ done.fn = "~rmw_context_impl_t"
  /\ done.leak
  /\ node_count >= 1

\* C25: every init() call, whatever node_count and is_shutdown are, returns
\* RMW_RET_OK with node_count one more, in size_t arithmetic, than it found.
C25_InitAlwaysCounts ==
  [][\A t \in Threads :
       cpc[t] = "init_locked" /\ op[t] = "init" =>
         /\ node_count = seen[t]
         /\ cpc'[t] = "idle"
              => /\ done'.fn = "init"
                 /\ done'.ret = RMW_RET_OK
                 /\ node_count' = node_count + 1]_vars

\* init() has returned on an impl that is shut down and already counted
C25_Witness ==
  /\ done.fn = "init"
  /\ done.ret = RMW_RET_OK
  /\ is_shutdown
  /\ node_count >= 2

\* C26: a new latch is Unattended (no handler, unread_count_ == 0,
\* has_triggered_ false); the three registration fields change in no step
\* of trigger() or has_triggered(), only when a set_callback() runs; and
\* every set_callback() leaves the latch Attended if its three arguments
\* are non-null and Unattended if one of them is null.
C26_StateChangesOnlyOnRegistration ==
  /\ listener_callback_ = NULL /\ user_data_ = NULL /\ waitable_handle_ = NULL
  /\ unread_count_ = 0 /\ ~has_triggered_
  /\ [][/\ regFields' # regFields =>
             \E t \in Threads : pc[t] = "set_callback_wait" /\ pc'[t] # pc[t]
        /\ \A t \in Threads :
             pc[t] = "set_callback_wait" /\ pc'[t] # pc[t] =>
               (listener_callback_' # NULL <=> AllNonNull(args'[t]))]_vars

\* a set_callback() with a null argument has made an Attended latch
\* Unattended, and a trigger was buffered since
C26_Witness ==
  /\ lastReg.kind = "cleared"
  /\ lastReg.prev = "installed"
  /\ listener_callback_ = NULL
  /\ unread_count_ >= 1

\* C27 (as claimed): the callback registered last through the rmw function
\* of an event, subscription, service or client is the handler the entity
\* holds.
C27_EntityKeepsItsCallback ==
  \A k \in EntityKinds :
    registered[k] # NULL => entity_handler[k] = registered[k]

\* C28 (as claimed): the k-th object constructed of a class has id k-1, so
\* no two objects of a class have the same id.
C28_IdsUniqueAndOrdered ==
  \A c \in IdClasses :
    LET ofClass == SelectSeq(instances, LAMBDA x : x.class = c)
    IN  \A k \in 1 .. Len(ofClass) : ofClass[k].id = k - 1

\* C29: rmw_context_fini() on the initialized context returns
\* RMW_RET_INVALID_ARGUMENT and changes nothing when the context has not
\* been shut down, and deletes the impl and zeroes the context when it has;
\* the impl of the context is deleted by no other call and in no other
\* state.
C29_FiniOnlyAfterShutdown ==
  /\ [][/\ done'.n # done.n
        /\ done'.fn = "rmw_context_fini"
        /\ done'.arg = "context"
        /\ ctxImpl # NULL
        => IF is_shutdown
             THEN /\ done'.ret = RMW_RET_OK
                  /\ ctxIdentifier' = NULL
                  /\ ctxImpl' = NULL
                  /\ ctxOptions' = NULL
             ELSE /\ done'.ret = RMW_RET_INVALID_ARGUMENT
                  /\ UNCHANGED <<rmw_context, impl, nodes>>]_vars
  /\ [][ctxImpl # NULL /\ ctxImpl' = NULL =>
          is_shutdown /\ done'.fn = "rmw_context_fini"]_vars

\* rmw_context_fini() was refused on a context that has a node and was not
\* shut down
C29_Witness ==
  /\ done.fn = "rmw_context_fini"
  /\ done.arg = "context"
  /\ done.ret = RMW_RET_INVALID_ARGUMENT
  /\ ctxImpl # NULL
  /\ ~is_shutdown
  /\ nodes >= 1

\* what every rmw_init() call does on RMW_RET_OK and on an error with a
\* zero-initialized context
InitAllOrNothing ==
  /\ done'.ret = RMW_RET_OK =>
       /\ ctxIdentifier = NULL
       /\ ctxIdentifier' = STUB
       /\ ctxImpl' = "impl"
       /\ ctxOptions' = OPTIONS_COPY
       /\ node_count' = 0
       /\ ~is_shutdown'
  /\ done'.ret # RMW_RET_OK /\ done'.arg = "context" /\ ctxIdentifier = NULL =>
       /\ ctxIdentifier' = NULL
       /\ ctxImpl' = NULL
       /\ ctxOptions' = NULL

\* C30 (as claimed): rmw_init() is all-or-nothing, and on a context that is
\* already initialized it returns RMW_RET_INVALID_ARGUMENT and leaves the
\* context unchanged.
C30_InitializedContextIsInvalidArgument ==
  [][done'.n # done.n /\ done'.fn = "rmw_init" =>
       /\ InitAllOrNothing
       /\ done'.arg = "context" /\ ctxIdentifier # NULL =>
            /\ done'.ret = RMW_RET_INVALID_ARGUMENT
            /\ UNCHANGED <<rmw_context, impl, nodes>>]_vars

\* C30 (amended): rmw_init() is all-or-nothing: on RMW_RET_OK the context,
\* zero-initialized before, has the identifier, a new impl with
\* node_count == 0 and is_shutdown false, and a copy of the options; on
\* every error with a zero-initialized context the context is
\* zero-initialized afterwards; on a context that is already initialized
\* the context is unchanged and the result is RMW_RET_INVALID_ARGUMENT,
\* except for options of another rmw implementation, whose check comes
\* first and returns RMW_RET_INCORRECT_RMW_IMPLEMENTATION.
C30_InitAllOrNothing ==
  [][done'.n # done.n /\ done'.fn = "rmw_init" =>
       /\ InitAllOrNothing
       /\ done'.arg = "context" /\ ctxIdentifier # NULL =>
            /\ done'.ret = IF done'.options = "foreign options"
                             THEN RMW_RET_INCORRECT_RMW_IMPLEMENTATION
                             ELSE RMW_RET_INVALID_ARGUMENT
            /\ UNCHANGED <<rmw_context, impl, nodes>>]_vars

\* rmw_init() with options of another implementation was refused on the
\* initialized context, which has a node
C30_Witness ==
  /\ done.fn = "rmw_init"
  /\ done.arg = "context"
  /\ done.options = "foreign options"
  /\ done.ret = RMW_RET_INCORRECT_RMW_IMPLEMENTATION
  /\ ctxImpl # NULL
  /\ nodes >= 1

\* C31: the context lifecycle is re-runnable.  Every rmw_context_fini()
\* that returns RMW_RET_OK leaves the context zero-initialized (null
\* implementation_identifier, impl and options); on the context so left,
\* rmw_shutdown() and rmw_context_fini() return RMW_RET_INVALID_ARGUMENT and
\* change nothing, and rmw_init() with valid options, its allocations
\* succeeding, returns RMW_RET_OK with a new impl whose is_shutdown is false
\* and node_count is 0.
C31_LifecycleRerunnable ==
  [][done'.n # done.n /\ done'.arg = "context" =>
       /\ done'.fn = "rmw_context_fini" /\ done'.ret = RMW_RET_OK =>
            /\ done'.cycles = done.cycles + 1
            /\ ctxIdentifier' = NULL
            /\ ctxImpl' = NULL
            /\ ctxOptions' = NULL
       /\ done.cycles >= 1 /\ ctxIdentifier = NULL /\ ctxImpl = NULL =>
            /\ done'.fn \in {"rmw_shutdown", "rmw_context_fini"} =>
                 /\ done'.ret = RMW_RET_INVALID_ARGUMENT
                 /\ UNCHANGED <<rmw_context, impl, nodes>>
            /\ /\ done'.fn = "rmw_init"
               /\ done'.options = "options"
               /\ done'.alloc = "ok"
               => /\ done'.ret = RMW_RET_OK
                  /\ ctxIdentifier' = STUB
                  /\ ctxImpl' = "impl"
                  /\ ~is_shutdown'
                  /\ node_count' = 0]_vars

\* the context went through rmw_init(), rmw_shutdown() and
\* rmw_context_fini() and has just been initialized again
C31_Witness ==
  /\ done.cycles = 1
  /\ done.fn = "rmw_init"
  /\ done.arg = "context"
  /\ done.ret = RMW_RET_OK
  /\ ctxImpl = "impl"
  /\ ~is_shutdown
  /\ node_count = 0

\* C32: init options follow an init/fini protocol.  rmw_init_options_init()
\* returns RMW_RET_OK only on options whose implementation_identifier is
\* null, and with a valid allocator it does; on any other options it
\* returns RMW_RET_INVALID_ARGUMENT and leaves them as they were.
\* rmw_init_options_fini() returns RMW_RET_INVALID_ARGUMENT on options whose
\* implementation_identifier is null, and on options this implementation
\* initialized it returns RMW_RET_OK and resets them to zero-initialized.
\* So, on one object, an rmw_init_options_init() right after a successful
\* one fails, and one right after a successful init and fini succeeds.
C32_OptionsInitFiniProtocol ==
  [][\A o \in OptionsObjects :
       optLog'[o] # optLog[o] =>
         LET e == optLog'[o].last
             old == init_options[o]
             new == init_options'[o]
             InitOk(c) ==
               c.fn = "rmw_init_options_init" /\ c.ret = RMW_RET_OK
         IN  /\ e.fn = "rmw_init_options_init" =>
                  /\ e.ret = RMW_RET_OK =>
                       /\ old.implementation_identifier = NULL
                       /\ new.implementation_identifier = STUB
                  /\ old.implementation_identifier = NULL =>
                       (e.ret = RMW_RET_OK <=> AllocatorIsValid(e.with))
                  /\ old.implementation_identifier # NULL =>
                       e.ret = RMW_RET_INVALID_ARGUMENT /\ new = old
                  /\ InitOk(optLog[o].last) =>
                       e.ret = RMW_RET_INVALID_ARGUMENT
                  /\ /\ InitOk(optLog[o].before)
                     /\ optLog[o].last.fn = "rmw_init_options_fini"
                     /\ AllocatorIsValid(e.with)
                     => e.ret = RMW_RET_OK
             /\ e.fn = "rmw_init_options_fini" =>
                  /\ old.implementation_identifier = NULL =>
                       e.ret = RMW_RET_INVALID_ARGUMENT /\ new = old
                  /\ old.implementation_identifier = STUB =>
                       e.ret = RMW_RET_OK /\ new = ZeroOptions
                  /\ InitOk(optLog[o].last) => e.ret = RMW_RET_OK]_vars

\* options that were finalized with RMW_RET_OK have been initialized
\* again
C32_Witness ==
  \E o \in OptionsObjects :
    /\ optLog[o].before.fn = "rmw_init_options_fini"
    /\ optLog[o].before.ret = RMW_RET_OK
    /\ optLog[o].last.fn = "rmw_init_options_init"
    /\ optLog[o].last.ret = RMW_RET_OK
    /\ init_options[o] = InitializedOptions("allocator")

\* C33 (as claimed): the gids of two publishers compare equal under
\* rmw_compare_gids_equal() if and only if the two are the same publisher,
\* and every rmw_get_gid_for_publisher() call for one publisher fills in
\* the same gid.
C33_GidsEqualIffSamePublisher ==
  /\ \A a \in gids, b \in gids : a.pub = b.pub => a.gid = b.gid
  /\ gidDone.fn = "rmw_compare_gids_equal" /\ gidDone.ret = RMW_RET_OK =>
       (gidDone.result <=> gidDone.p = gidDone.q)

\* C34 (as claimed): on a latch on which trigger() has never been called,
\* every has_triggered() call returns false, whatever has_triggered() and
\* set_callback() calls came before.
C34_NoSpuriousPoll ==
  (trigKind = "none" /\ \A t \in Threads : pc[t] # "trigger_wait") =>
    \A k \in 1 .. Len(pollLog) : pollLog[k] = FALSE

\* C34 (amended): on a latch on which trigger() has never been called, the
\* has_triggered() calls return false, true, false, true, ...: the k-th
\* call returns true exactly when k is even, whatever set_callback() calls
\* come in between.
C34_IdlePollsAlternate ==
  (trigKind = "none" /\ \A t \in Threads : pc[t] # "trigger_wait") =>
    \A k \in 1 .. Len(pollLog) : pollLog[k] = (k % 2 = 0)

\* three polls and the registration of a handler, no trigger() called
C34_Witness ==
  /\ trigKind = "none"
  /\ \A t \in Threads : pc[t] # "trigger_wait"
  /\ Len(pollLog) = 3
  /\ lastReg.kind = "installed"

\* C35: in every state in which no thread is inside set_callback(), a
\* registered handler implies an empty backlog: listener_callback_ not null
\* implies unread_count_ == 0.
C35_HandlerImpliesEmptyBacklog ==
  (\A t \in Threads : pc[t] \notin InSetCallback) =>
    (listener_callback_ # NULL => unread_count_ = 0)

\* a handler is registered, has_triggered_ is set, a trigger() has been
\* delivered to the handler and every call has returned
C35_Witness ==
  /\ Idle
  /\ listener_callback_ # NULL
  /\ unread_count_ = 0
  /\ has_triggered_
  /\ liveSinceReg
  /\ pollLog = <<>>

\* C36: a set_callback() with a null user_data, callback or waitable_handle
\* changes neither unread_count_ nor has_triggered_, from the statement
\* that takes the lock to its return; and a set_callback(valid handler,
\* replay = true) that comes after a clearing one invokes the handler once
\* for every trigger it finds buffered, those from before the clearing call
\* included.
C36_ClearKeepsTheBacklog ==
  /\ [](\A t \in Threads :
          /\ pc[t] \in InSetCallback /\ ~AllNonNull(args[t]) =>
               /\ unread_count_ = entry[t].unread
               /\ has_triggered_ = entry[t].flag
          /\ /\ pc[t] = "set_callback_exit"
             /\ AllNonNull(args[t])
             /\ args[t].use_previous_events
             /\ entry[t].reg = "cleared"
             => inv[t] = entry[t].unread)
  /\ [][\A t \in Threads :
          /\ pc[t] = "set_callback_wait"
          /\ pc'[t] # pc[t]
          /\ ~AllNonNull(args'[t])
          => UNCHANGED <<unread_count_, has_triggered_>>]_vars

\* a clearing set_callback() that found two buffered triggers is about to
\* return while a set_callback() of another thread waits for the lock
C36_Witness ==
  \E t, u \in Threads :
    /\ pc[t] = "set_callback_exit"
    /\ ~AllNonNull(args[t])
    /\ entry[t].unread = 2
    /\ unread_count_ = 2
    /\ has_triggered_
    /\ pc[u] = "set_callback_wait"

\* C37: in every state in which the latch's lock is free,
\* listener_callback_, user_data_ and waitable_handle_ are all null or all
\* non-null; and no handler is invoked by trigger() with a null user_data
\* or a null waitable_handle.
C37_RegistrationFieldsConsistent ==
  /\ mutex = {} =>
       \/ /\ listener_callback_ = NULL
          /\ user_data_ = NULL
          /\ waitable_handle_ = NULL
       \/ /\ listener_callback_ # NULL
          /\ user_data_ # NULL
          /\ waitable_handle_ # NULL
  /\ call.from = "trigger" =>
       /\ call.callback # NULL
       /\ call.user_data # NULL
       /\ call.waitable_handle # NULL

\* the lock is free, a handler is registered and a trigger() has invoked it
C37_Witness ==
  /\ mutex = {}
  /\ listener_callback_ # NULL
  /\ user_data_ # NULL
  /\ waitable_handle_ # NULL
  /\ liveSinceReg
  /\ trigKind = "live"

====
